---- MODULE Spec2Model ----
(***************************************************************************)
(* bbuilder: the manifest model (crates/spec) and the docker-compose       *)
(* backend (crates/runtime-docker-compose).  A Manifest is lowered by      *)
(* DockerRuntime::run into a compose descriptor plus staged files under    *)
(* <dir_path>/<manifest name>.                                             *)
(*                                                                         *)
(* Strings are TLA+ strings (format! is \o), Vec is a sequence, a HashMap  *)
(* is a function whose iteration order is an input of the operation that   *)
(* iterates it, Option is a sequence of length at most one.                *)
(***************************************************************************)
EXTENDS Integers, Sequences, FiniteSets, TLC

VARIABLES
    manifest,   \* the Manifest handed to run()
    disk,       \* the host filesystem: [dirs, files]
    result,     \* "none" before run(), then "ok" or "err": what run() returned
    compiled,   \* Option<DockerComposeSpec>: what convert_to_docker_compose_spec returned
    origin,     \* history: which (pod, spec) made the last insert under each service name
    status,     \* the engine's containers: service name -> created, running, exited_ok, exited_err
    procs,      \* the run() calls made on one backend: [manifest, pc, result, io_failed]
    observer,   \* the task DockerRuntime::new spawns: [task, stdout, stderr]
    process,    \* the hosting process: "alive" or "aborted"
    builder,    \* a SpecBuilder being filled
    built,      \* what finalizing the builder gave: none, a Spec, or a panic
    request,    \* the deployment request (Dep) main read
    applied,    \* what catalog::apply returned for the request
    fetcher     \* the fetch call of crates/fetcher: its position, response, tracker

vars == <<manifest, disk, result, compiled, origin, status, procs, observer, process,
          builder, built, request, applied, fetcher>>

\* The construction side: the builder and the catalog
constructionVars == <<builder, built, request, applied>>

\* What a compile leaves alone
outsideRun == <<status, procs, observer, process, constructionVars, fetcher>>

\* What the engine leaves alone
outsideEngine ==
    <<manifest, disk, result, compiled, origin, procs, observer, process, constructionVars,
      fetcher>>

\* What the run() calls in flight leave alone
outsideProcs ==
    <<manifest, result, compiled, origin, status, observer, process, constructionVars,
      fetcher>>

\* What the observer task leaves alone
outsideObserver ==
    <<manifest, disk, result, compiled, origin, status, procs, process, constructionVars,
      fetcher>>

\* What main leaves alone while it reads the request and asks the catalog
outsideCatalog ==
    <<disk, result, compiled, origin, status, procs, observer, builder, built, request,
      fetcher>>

\* What a fetch leaves alone
outsideFetch ==
    <<manifest, result, compiled, origin, status, procs, observer, process, constructionVars>>

\* What the builder leaves alone
outsideBuilder ==
    <<manifest, disk, result, compiled, origin, status, procs, observer, process,
      request, applied, fetcher>>

-----------------------------------------------------------------------------
(* Bounds *)

\* A Manifest holds at most this many (pod, spec) pairs.
MaxSpecs == 2

\* A SpecBuilder is given at most this many args,
MaxArgs == 2

\* and at most this many artifacts.
MaxArtifacts == 1

\* The hash seeds tried are 0..MaxSeed; a seed fixes the iteration order of the
\* HashMaps hashed with it.
MaxSeed == 1

\* The engine's event stream delivers at most this many items to the observer.
MaxEvents == 1

\* run() is called at most this many times, one call after the other, on one root.
MaxRuns == 2

\* A response body reaches the fetcher in at most this many non-empty reads.
MaxChunks == 2

-----------------------------------------------------------------------------
(* Strings, options, maps *)

\* str::starts_with
starts_with(s, p) == Len(s) >= Len(p) /\ SubSeq(s, 1, Len(p)) = p

None == <<>>

Some(x) == <<x>>

\* Option::unwrap_or
unwrap_or(opt, default) == IF opt = None THEN default ELSE opt[1]

\* HashMap::new()
EmptyMap == <<>>

\* HashMap::insert: a colliding insert replaces the prior entry
insert(map, key, value) == (key :> value) @@ map

\* The keys S in one fixed order
RECURSIVE Sorted(_)
Sorted(S) ==
    IF S = {} THEN <<>>
    ELSE LET x == CHOOSE y \in S : TRUE IN <<x>> \o Sorted(S \ {x})

\* std::collections::HashMap iterates in an order fixed by the keys and by the
\* seed of its RandomState, and by nothing the program controls: seed k gives the
\* k-th permutation of the keys (k mod n!, factorial number system), so the seeds
\* 0..n!-1 give every order of n keys.
RECURSIVE iter(_, _)
iter(S, seed) ==
    IF S = {} THEN <<>>
    ELSE LET n == Cardinality(S)
             x == Sorted(S)[(seed % n) + 1]
         IN <<x>> \o iter(S \ {x}, seed \div n)

HashSeeds == 0..MaxSeed

-----------------------------------------------------------------------------
(* Paths and the filesystem *)

\* DockerRuntime::new("composer")
dir_path == "composer"

\* The working directory of the process; relative paths resolve against it
Cwd == "/work"

\* Path::join with a relative component
join(a, b) == a \o "/" \o b

\* Path::canonicalize of an existing path without links: the absolute path
canonicalize(p) == IF starts_with(p, "/") THEN p ELSE join(Cwd, p)

\* The path and its ancestors below the root directory
Ancestors(p) ==
    {p} \cup {SubSeq(p, 1, i - 1) : i \in {j \in 2..Len(p) : SubSeq(p, j, j) = "/"}}

EmptyDisk == [dirs |-> {Cwd}, files |-> EmptyMap]

\* std::fs::create_dir_all: creates the directory and the missing ancestors
create_dir_all(d, p) ==
    [d EXCEPT !.dirs = @ \cup (Ancestors(canonicalize(p)) \ Ancestors(Cwd))]

\* std::fs::write: creates or replaces the file
write(d, p, content) ==
    [d EXCEPT !.files = insert(@, canonicalize(p), content)]

\* One filesystem call of a compile: the failAt-th call of the run fails with an
\* I/O error and changes nothing; `?` then returns the error.  When st.only is a
\* call number, st follows that one call alone: the other calls are counted and
\* leave st.disk as it is (no call of a compile reads what an earlier one wrote).
FsOp(st, failAt, after) ==
    IF st.n + 1 = failAt
    THEN [st EXCEPT !.n = @ + 1, !.err = TRUE]
    ELSE IF st.only # 0 /\ st.n + 1 # st.only
    THEN [st EXCEPT !.n = @ + 1]
    ELSE [st EXCEPT !.n = @ + 1, !.disk = after]

-----------------------------------------------------------------------------
(* The manifest model: crates/spec *)

\* spec::File
File(name, target_path, content) ==
    [name |-> name, target_path |-> target_path, content |-> content]

\* spec::Arg, one constructor per variant
ArgValue(value) == [kind |-> "Value", value |-> value]

ArgDir(name, path) == [kind |-> "Dir", name |-> name, path |-> path]

ArgPort(name, preferred) == [kind |-> "Port", name |-> name, preferred |-> preferred]

ArgRef(name, port) == [kind |-> "Ref", name |-> name, port |-> port]

ArgFile(file) == [kind |-> "File", file |-> file]

\* Manifest::new followed by add_spec calls: [name, pods], pods: pod name -> Pod,
\* a Pod being its specs map: spec name -> Spec
Manifest(name, pods) == [name |-> name, pods |-> pods]

\* impl From<&str> for Arg (and From<String>, From<&String>)
ArgFromStr(s) == ArgValue(s)

\* spec::Volume
Volume(name) == [name |-> name]

\* Spec::builder(): SpecBuilder::default()
SpecBuilderDefault ==
    [image |-> None, tag |-> None, args |-> <<>>, env |-> EmptyMap,
     entrypoint |-> <<>>, labels |-> EmptyMap, artifacts |-> <<>>,
     volumes |-> EmptyMap]

SpecBuilder_image(b, image) == [b EXCEPT !.image = Some(image)]

SpecBuilder_tag(b, tag) == [b EXCEPT !.tag = Some(tag)]

SpecBuilder_arg(b, arg) == [b EXCEPT !.args = Append(@, arg)]

SpecBuilder_arg2(b, name, value) ==
    [b EXCEPT !.args = Append(Append(@, ArgValue(name)), value)]

SpecBuilder_args(b, args) == [b EXCEPT !.args = @ \o args]

SpecBuilder_env(b, key, value) == [b EXCEPT !.env = insert(@, key, value)]

SpecBuilder_entrypoint(b, entrypoint) == [b EXCEPT !.entrypoint = entrypoint]

SpecBuilder_label(b, key, value) == [b EXCEPT !.labels = insert(@, key, value)]

SpecBuilder_artifact(b, artifact) == [b EXCEPT !.artifacts = Append(@, artifact)]

SpecBuilder_volume(b, volume) == [b EXCEPT !.volumes = insert(@, volume.name, volume)]

\* SpecBuilder::build: `self.image.unwrap()` panics on None; otherwise the Spec
SpecBuilder_build(b) ==
    IF b.image = None
    THEN [kind |-> "panic"]
    ELSE [kind |-> "spec",
          spec |-> [image |-> b.image[1], tag |-> b.tag, args |-> b.args,
                    entrypoint |-> b.entrypoint, labels |-> b.labels, env |-> b.env,
                    artifacts |-> b.artifacts, volumes |-> b.volumes]]

\* impl Into<Spec> for SpecBuilder
SpecBuilder_into(b) == SpecBuilder_build(b)

\* Pod::with_spec(self, name, spec: impl Into<Spec>) on the specs map of the Pod
Pod_with_spec(pod, name, b) ==
    LET converted == SpecBuilder_into(b)
    IN  IF converted.kind = "panic" THEN converted
        ELSE [kind |-> "pod", pod |-> insert(pod, name, converted.spec)]

\* Manifest::new
Manifest_new(name) == Manifest(name, EmptyMap)

\* Manifest::add_spec
Manifest_add_spec(m, name, pod) == [m EXCEPT !.pods = insert(@, name, pod)]

-----------------------------------------------------------------------------
(* The catalog: crates/catalog.  serde_json values are tagged records; a      *)
(* deserialization gives Some(value) or None for the error.                   *)

JObj(fields) == [j |-> "obj", v |-> fields]

JStr(s) == [j |-> "str", v |-> s]

JNull == [j |-> "null"]

\* #[derive(Deserialize)] on a struct with no fields (Reth {}, Bor {}, ...): a JSON
\* object, whose keys are ignored; any other kind of value is an invalid type
de_unit_struct(v) == IF v.j = "obj" THEN Some("{}") ELSE None

\* #[derive(Deserialize)] on an enum of newtype variants, externally tagged with
\* lowercase names: an object with the one key of a known variant
de_enum(v, variants) ==
    IF v.j = "obj" /\ Cardinality(DOMAIN v.v) = 1
    THEN LET key == CHOOSE k \in DOMAIN v.v : TRUE
         IN  IF key \in DOMAIN variants /\ de_unit_struct(v.v[key]) # None
             THEN Some(variants[key])
             ELSE None
    ELSE None

\* ELNode: Reth
de_ELNode(v) == de_enum(v, ("reth" :> "Reth"))

\* CLNode: Prysm, Lighthouse
de_CLNode(v) == de_enum(v, ("prysm" :> "Prysm") @@ ("lighthouse" :> "Lighthouse"))

\* EthDeploymentInput { el_node, cl_node }: both fields required, others ignored
de_EthDeploymentInput(v) ==
    IF /\ v.j = "obj"
       /\ {"el_node", "cl_node"} \subseteq DOMAIN v.v
       /\ de_ELNode(v.v["el_node"]) # None
       /\ de_CLNode(v.v["cl_node"]) # None
    THEN Some([el_node |-> de_ELNode(v.v["el_node"])[1],
               cl_node |-> de_CLNode(v.v["cl_node"])[1]])
    ELSE None

\* PolygonDeploymentInput { heimdall, bor }
de_PolygonDeploymentInput(v) ==
    IF /\ v.j = "obj"
       /\ {"heimdall", "bor"} \subseteq DOMAIN v.v
       /\ de_unit_struct(v.v["heimdall"]) # None
       /\ de_unit_struct(v.v["bor"]) # None
    THEN Some([heimdall |-> "Heimdall", bor |-> "Bor"])
    ELSE None

\* BerachainDeploymentInput { beacon_kit, bera_reth }
de_BerachainDeploymentInput(v) ==
    IF /\ v.j = "obj"
       /\ {"beacon_kit", "bera_reth"} \subseteq DOMAIN v.v
       /\ de_unit_struct(v.v["beacon_kit"]) # None
       /\ de_unit_struct(v.v["bera_reth"]) # None
    THEN Some([beacon_kit |-> "BeaconKit", bera_reth |-> "BeraReth"])
    ELSE None

DEFAULT_JWT_TOKEN == "04592280e1778419b7aa954d43871cb2cfb2ebda754fb735e8adeb293a88f9bf"

\* #[default] of each module's Chains enum
DefaultChain == "Mainnet"

\* Reth::spec
Reth_spec(chain) ==
    LET chain_arg == IF chain = "Mainnet" THEN "mainnet" ELSE "sepolia"
        b1 == SpecBuilder_tag(SpecBuilder_image(SpecBuilderDefault,
                                                "ghcr.io/paradigmxyz/reth"), "v1.4.8")
        b2 == SpecBuilder_arg2(SpecBuilder_arg(b1, ArgFromStr("node")),
                               "--chain", ArgFromStr(chain_arg))
        b3 == SpecBuilder_arg2(SpecBuilder_arg(b2, ArgFromStr("--full")),
                               "--color", ArgFromStr("never"))
        b4 == SpecBuilder_arg2(b3, "--authrpc.port", ArgPort("authrpc", 8551))
        b5 == SpecBuilder_arg2(b4, "--authrpc.addr", ArgFromStr("0.0.0.0"))
        b6 == SpecBuilder_arg2(b5, "--authrpc.jwtsecret", ArgFromStr("/data/jwt_secret"))
        b7 == SpecBuilder_arg2(b6, "--datadir", ArgFromStr("/data"))
        node == SpecBuilder_artifact(b7, File("jwt", "/data/jwt_secret", DEFAULT_JWT_TOKEN))
    IN  Pod_with_spec(EmptyMap, "node", node)

\* Lighthouse::spec
Lighthouse_spec(chain) ==
    LET chain_arg == IF chain = "Mainnet" THEN "mainnet" ELSE "sepolia"
        b1 == SpecBuilder_tag(SpecBuilder_image(SpecBuilderDefault, "sigp/lighthouse"),
                              "v8.0.0-rc.2")
        b2 == SpecBuilder_arg(SpecBuilder_entrypoint(b1, <<"lighthouse">>), ArgFromStr("bn"))
        b3 == SpecBuilder_arg2(b2, "--network", ArgFromStr(chain_arg))
        b4 == SpecBuilder_arg2(b3, "--execution-endpoint", ArgRef("el", "authrpc"))
        b5 == SpecBuilder_arg2(b4, "--execution-jwt", ArgFromStr("/data/jwt_secret"))
        b6 == SpecBuilder_arg2(b5, "--datadir", ArgFromStr("/data"))
        node == SpecBuilder_artifact(b6, File("jwt", "/data/jwt_secret", DEFAULT_JWT_TOKEN))
    IN  Pod_with_spec(EmptyMap, "node", node)

\* Prysm::spec
Prysm_spec(chain) ==
    LET chain_arg == IF chain = "Mainnet" THEN "--mainnet" ELSE "--sepolia"
        b1 == SpecBuilder_tag(SpecBuilder_image(SpecBuilderDefault,
                                "gcr.io/prysmaticlabs/prysm/beacon-chain"), "v6.0.0")
        b2 == SpecBuilder_arg2(SpecBuilder_arg(b1, ArgFromStr(chain_arg)),
                               "--datadir", ArgDir("prysm_data", "/data"))
        b3 == SpecBuilder_arg2(b2, "--execution-endpoint", ArgRef("el", "authrpc"))
        b4 == SpecBuilder_arg2(b3, "--jwt-secret", ArgFromStr("/data/jwt_secret"))
        b5 == SpecBuilder_arg2(b4, "--grpc-gateway-host", ArgFromStr("0.0.0.0"))
        b6 == SpecBuilder_arg2(b5, "--grpc-gateway-port", ArgFromStr("5052"))
        b7 == SpecBuilder_arg(b6, ArgFromStr("--accept-terms-of-use"))
        node == SpecBuilder_artifact(b7, File("jwt", "/data/jwt_secret", DEFAULT_JWT_TOKEN))
    IN  Pod_with_spec(EmptyMap, "node", node)

\* EthereumDeployment::manifest
EthereumDeployment_manifest(chain, input) ==
    LET el_node == Reth_spec(chain)
        cl_node == IF input.cl_node = "Lighthouse" THEN Lighthouse_spec(chain)
                   ELSE Prysm_spec(chain)
    IN  [kind |-> "ok",
         manifest |-> Manifest_add_spec(
                        Manifest_add_spec(Manifest_new("eth"), "el", el_node.pod),
                        "cl", cl_node.pod)]

\* Heimdall::spec.  keys and val_keys are the freshly generated key files; the
\* embedded and rendered configuration files are named, their text being no part
\* of the sources.
Heimdall_spec(chain, keys, val_keys) ==
    LET b1 == SpecBuilder_entrypoint(
                SpecBuilder_image(SpecBuilderDefault, "0xpolygon/heimdall-v2"),
                <<"/usr/bin/heimdalld">>)
        b2 == SpecBuilder_arg(SpecBuilder_tag(b1, "0.2.16"), ArgFromStr("start"))
        b3 == SpecBuilder_arg2(b2, "--home", ArgFromStr("/data/heimdall"))
        b4 == SpecBuilder_artifact(b3,
                File("genesis", "/data/heimdall/config/genesis.json",
                     "https://storage.googleapis.com/amoy-heimdallv2-genesis/migrated_dump-genesis.json"))
        b5 == SpecBuilder_artifact(b4,
                File("client.toml", "/data/heimdall/config/client.toml",
                     "render(heimdall/client.toml, chain = heimdallv2-137)"))
        b6 == SpecBuilder_artifact(b5,
                File("app.toml", "/data/heimdall/config/app.toml",
                     "include_str(heimdall/app.toml)"))
        b7 == SpecBuilder_artifact(b6,
                File("config.toml", "/data/heimdall/config/config.toml",
                     "include_str(heimdall/config.toml)"))
        b8 == SpecBuilder_artifact(b7,
                File("node_key.json", "/data/heimdall/config/node_key.json", keys))
        b9 == SpecBuilder_artifact(b8,
                File("priv_validator_key.json",
                     "/data/heimdall/config/priv_validator_key.json", val_keys))
        node == SpecBuilder_artifact(b9,
                File("priv_validator_state.json",
                     "/data/heimdall/data/priv_validator_state.json",
                     "{ height: 0, round: 0, step: 0 }"))
    IN  Pod_with_spec(EmptyMap, "node", node)

\* Bor::spec
Bor_spec(chain) ==
    LET b1 == SpecBuilder_tag(SpecBuilder_image(SpecBuilderDefault, "0xpolygon/bor"), "1.1.0")
        b2 == SpecBuilder_arg2(SpecBuilder_arg(b1, ArgFromStr("server")),
                               "--config", ArgFromStr("/data/config.toml"))
        b3 == SpecBuilder_artifact(b2,
                File("config", "/data/config.toml", "include_str(bor/config.toml)"))
        node == SpecBuilder_artifact(b3,
                File("genesis.json", "/data/genesis.json",
                     "https://raw.githubusercontent.com/0xPolygon/bor/master/builder/files/genesis-mainnet-v1.json"))
    IN  Pod_with_spec(EmptyMap, "bor", node)

\* PolygonDeployment::manifest
PolygonDeployment_manifest(chain, input, keys, val_keys) ==
    [kind |-> "ok",
     manifest |-> Manifest_add_spec(
                    Manifest_add_spec(Manifest_new("polygon"), "heimdall",
                                      Heimdall_spec(chain, keys, val_keys).pod),
                    "bor", Bor_spec(chain).pod)]

\* bera_chain_file(80069, path)
bera_chain_file(path) ==
    "https://raw.githubusercontent.com/berachain/beacon-kit/refs/heads/main/testing/networks/80069/"
    \o path

\* BeaconKit::spec.  fetched is what fetch_data got for the two lists (an Option:
\* None when the request failed, and fetch_data's unwrap() panics)
BeaconKit_spec(chain, fetched) ==
    IF fetched = None THEN [kind |-> "panic"]
    ELSE
    LET b1 == SpecBuilder_tag(SpecBuilder_image(SpecBuilderDefault,
                                "ghcr.io/berachain/beacon-kit"), "v1.3.4-rc1")
        b2 == SpecBuilder_arg2(SpecBuilder_arg(b1, ArgFromStr("start")),
                               "--home", ArgFromStr("/data"))
        b3 == SpecBuilder_env(SpecBuilder_env(b2, "EL_BOOTNODES", fetched[1].bootnodes),
                              "EL_PEERS", fetched[1].peers)
        b4 == SpecBuilder_artifact(b3,
                File("genesis", "/data/genesis.json", bera_chain_file("genesis.json")))
        b5 == SpecBuilder_artifact(b4,
                File("kzg-trusted-setup", "/data/kzg-trusted-setup.json",
                     bera_chain_file("kzg-trusted-setup.json")))
        b6 == SpecBuilder_artifact(b5,
                File("eth-genesis", "/data/eth-genesis.json",
                     bera_chain_file("eth-genesis.json")))
        b7 == SpecBuilder_artifact(b6,
                File("config", "/data/config.toml", "render(config/config.toml)"))
        node == SpecBuilder_artifact(b7,
                File("app", "/data/app.toml",
                     "render(config/app.toml, rpc_dial_url = http://localhost:8551)"))
    IN  Pod_with_spec(EmptyMap, "node", node)

\* BeraReth::spec
BeraReth_spec(chain) ==
    LET b1 == SpecBuilder_tag(SpecBuilder_image(SpecBuilderDefault,
                                "ghcr.io/berachain/bera-reth"), "v1.3.0")
        node == SpecBuilder_arg2(b1, "--chain", ArgFromStr("/data/genesis.json"))
    IN  Pod_with_spec(EmptyMap, "reth", node)

\* BerachainDeployment::manifest
BerachainDeployment_manifest(chain, input, fetched) ==
    LET beacon_kit == BeaconKit_spec(chain, fetched)
    IN  IF beacon_kit.kind = "panic" THEN beacon_kit
        ELSE [kind |-> "ok",
              manifest |-> Manifest_add_spec(
                             Manifest_add_spec(Manifest_new("berachain"), "beaconkit",
                                               beacon_kit.pod),
                             "berareth", BeraReth_spec(chain).pod)]

\* Deployment::apply: the typed input from dep.args, then
\* self.manifest(Default::default(), input): dep.chain is not read
Deployment_apply(input, made) ==
    IF input = None THEN [kind |-> "err"] ELSE made

\* catalog::apply that does not match on dep.module: every request is served by
\* the ethereum entry
apply_first_entry(dep, env) ==
    Deployment_apply(de_EthDeploymentInput(dep.args),
        IF de_EthDeploymentInput(dep.args) = None THEN [kind |-> "err"]
        ELSE EthereumDeployment_manifest(DefaultChain, de_EthDeploymentInput(dep.args)[1]))

\* catalog::apply.  env is what the call meets outside the program: the keys the
\* generators draw and the answer to fetch_data's requests
apply(dep, env) ==
    CASE dep.module = "ethereum" ->
            LET input == de_EthDeploymentInput(dep.args)
            IN  Deployment_apply(input,
                    IF input = None THEN [kind |-> "err"]
                    ELSE EthereumDeployment_manifest(DefaultChain, input[1]))
      [] dep.module = "polygon" ->
            LET input == de_PolygonDeploymentInput(dep.args)
            IN  Deployment_apply(input,
                    IF input = None THEN [kind |-> "err"]
                    ELSE PolygonDeployment_manifest(DefaultChain, input[1],
                                                    env.keys, env.val_keys))
      [] dep.module = "berachain" ->
            LET input == de_BerachainDeploymentInput(dep.args)
            IN  Deployment_apply(input,
                    IF input = None THEN [kind |-> "err"]
                    ELSE BerachainDeployment_manifest(DefaultChain, input[1], env.fetched))
      [] OTHER -> [kind |-> "err"]

-----------------------------------------------------------------------------
(* Lowering: DockerRuntime::convert_to_docker_compose_spec *)

\* DockerComposeService::default()
DefaultService ==
    [image |-> "", command |-> <<>>, entrypoint |-> <<>>, labels |-> EmptyMap,
     environment |-> EmptyMap, ports |-> <<>>, networks |-> <<>>,
     volumes |-> <<>>, depends_on |-> EmptyMap]

\* DependsOnCondition::ServiceCompletedSuccessfully, by its serde name
ServiceCompletedSuccessfully == "service_completed_successfully"

\* Image that leaves the tag empty when the spec has none
ImageNoDefaultTag(spec) == spec.image \o ":" \o unwrap_or(spec.tag, "")

\* format!("{}:{}", spec.image, spec.tag.unwrap_or("latest"))
Image(spec) == spec.image \o ":" \o unwrap_or(spec.tag, "latest")

\* format!("{}:{}", absolute_data_path.display(), "/data")
DataVolume(absolute_data_path) == absolute_data_path \o ":" \o "/data"

\* The match on one Arg: the token it yields (an Option), the port it reserves,
\* the artifact it routes to the artifact step
cleaned_arg(arg) ==
    CASE arg.kind = "Value" -> Some(arg.value)
      [] arg.kind = "Dir" -> Some(arg.path)
      [] arg.kind = "Port" -> Some("--" \o arg.name \o "=" \o ToString(arg.preferred))
      [] arg.kind = "File" -> None
      [] arg.kind = "Ref" -> Some("")

\* ArgPorts with the host side left unset (0: an ephemeral host port)
ArgPortsHostUnset(arg) ==
    IF arg.kind = "Port"
    THEN <<[host |-> 0, container |-> arg.preferred]>>
    ELSE <<>>

ArgPorts(arg) ==
    IF arg.kind = "Port"
    THEN <<[host |-> arg.preferred, container |-> arg.preferred]>>
    ELSE <<>>

\* ArgArtifacts that forgets the artifact of a File arg
ArgArtifactsDropped(arg) == <<>>

ArgArtifacts(arg) == IF arg.kind = "File" THEN <<arg.file>> ELSE <<>>

\* LowerArg that pushes the token at the front of the command
LowerArgPrepend(acc, arg) ==
    [command |-> cleaned_arg(arg) \o acc.command,
     ports |-> acc.ports \o ArgPorts(arg),
     artifacts_to_process |-> acc.artifacts_to_process \o ArgArtifacts(arg)]

\* One turn of `for arg in spec.args`
LowerArg(acc, arg) ==
    [command |-> acc.command \o cleaned_arg(arg),
     ports |-> acc.ports \o ArgPorts(arg),
     artifacts_to_process |-> acc.artifacts_to_process \o ArgArtifacts(arg)]

RECURSIVE LowerArgsFrom(_, _, _)
LowerArgsFrom(args, i, acc) ==
    IF i > Len(args) THEN acc
    ELSE LowerArgsFrom(args, i + 1, LowerArg(acc, args[i]))

\* The whole `for arg in spec.args` loop
LowerArgs(args) ==
    LowerArgsFrom(args, 1,
        [command |-> <<>>, ports |-> <<>>, artifacts_to_process |-> <<>>])

\* InitServiceName that gives the init service the name of its owner
InitServiceNameOfOwner(pod_name, spec_name, name) == pod_name \o "-" \o spec_name

\* format!("{}-{}-init-{}", pod_name, spec_name, name)
InitServiceName(pod_name, spec_name, name) ==
    pod_name \o "-" \o spec_name \o "-init-" \o name

\* format!("{}-{}", pod_name, spec_name)
ServiceName(pod_name, spec_name) == pod_name \o "-" \o spec_name

\* Path::strip_prefix("/data").unwrap_or(container_target), displayed
relative_target(target_path) ==
    IF target_path = "/data" THEN ""
    ELSE IF starts_with(target_path, "/data/")
         THEN SubSeq(target_path, 7, Len(target_path))
         ELSE target_path

\* format!("/data/{}", relative_target.display())
download_path(target_path) == "/data/" \o relative_target(target_path)

\* The init container of a remote artifact
InitService(file, absolute_data_path) ==
    [DefaultService EXCEPT
        !.image = "curlimages/curl:latest",
        !.command = <<"sh", "-c",
            "mkdir -p $(dirname " \o download_path(file.target_path)
            \o ") && curl -L -o " \o download_path(file.target_path)
            \o " " \o file.content>>,
        !.volumes = <<DataVolume(absolute_data_path)>>]

\* IsRemote that takes every artifact for an inline one
IsRemoteNever(file) == FALSE

\* content.starts_with("https://")
IsRemote(file) == starts_with(file.content, "https://")

\* absolute_config_path.join(name)
target_host_path(absolute_config_path, name) == join(absolute_config_path, name)

\* Path::parent: the path without its last component
parent(p) ==
    LET cuts == {j \in 2..Len(p) : SubSeq(p, j, j) = "/"}
    IN  IF cuts = {} THEN None
        ELSE Some(SubSeq(p, 1, (CHOOSE j \in cuts : \A k \in cuts : k <= j) - 1))

\* One turn of `for artifact in artifacts_to_process`.  ctx is the compile so far
\* (st) with the spec's volumes and init_services.
ProcessArtifact(ctx, file, pod_name, spec_name, abs_data, abs_config, failAt) ==
    IF ctx.st.err THEN ctx
    ELSE IF IsRemote(file)
    THEN LET init_service_name == InitServiceName(pod_name, spec_name, file.name)
         IN [ctx EXCEPT
                !.st.services =
                    insert(@, init_service_name, InitService(file, abs_data)),
                !.st.origin =
                    insert(@, init_service_name,
                           [pod |-> pod_name, spec |-> spec_name, kind |-> "init"]),
                !.init_services =
                    insert(@, init_service_name, Some(ServiceCompletedSuccessfully))]
    ELSE LET host == target_host_path(abs_config, file.name)
             made == IF parent(host) = None THEN ctx.st
                     ELSE FsOp(ctx.st, failAt, create_dir_all(ctx.st.disk, parent(host)[1]))
             st == IF made.err THEN made
                   ELSE FsOp(made, failAt, write(made.disk, host, file.content))
         IN IF st.err THEN [ctx EXCEPT !.st = st]
            ELSE [ctx EXCEPT
                    !.st = st,
                    !.volumes = Append(@, host \o ":" \o file.target_path)]

RECURSIVE ProcessArtifactsFrom(_, _, _, _, _, _, _, _)
ProcessArtifactsFrom(ctx, files, i, pod_name, spec_name, abs_data, abs_config, failAt) ==
    IF i > Len(files) THEN ctx
    ELSE ProcessArtifactsFrom(
            ProcessArtifact(ctx, files[i], pod_name, spec_name,
                            abs_data, abs_config, failAt),
            files, i + 1, pod_name, spec_name, abs_data, abs_config, failAt)

\* The body of `for (spec_name, spec) in pod.specs`: lowers one spec into st
LowerSpec(st, compose_dir, pod_name, spec_name, spec, failAt) ==
    IF st.err THEN st
    ELSE
    LET data_path == join(compose_dir, "data")
        st1 == FsOp(st, failAt, create_dir_all(st.disk, data_path))
        absolute_data_path == canonicalize(data_path)
        lowered == LowerArgs(spec.args)
        artifacts_to_process == lowered.artifacts_to_process \o spec.artifacts
        config_path == join(compose_dir, "_config")
        st2 == FsOp(st1, failAt, create_dir_all(st1.disk, config_path))
        absolute_config_path == canonicalize(config_path)
        ctx == ProcessArtifactsFrom(
                    [st |-> st2,
                     volumes |-> <<DataVolume(absolute_data_path)>>,
                     init_services |-> EmptyMap],
                    artifacts_to_process, 1, pod_name, spec_name,
                    absolute_data_path, absolute_config_path, failAt)
        service ==
            [command |-> lowered.command,
             entrypoint |-> spec.entrypoint,
             environment |-> spec.env,
             image |-> Image(spec),
             labels |-> insert(spec.labels, "bbuilder", "true"),
             ports |-> lowered.ports,
             volumes |-> ctx.volumes,
             networks |-> <<"test">>,
             depends_on |-> ctx.init_services]
        service_name == ServiceName(pod_name, spec_name)
    IN  IF st1.err THEN st1
        ELSE IF st2.err THEN st2
        ELSE IF ctx.st.err THEN ctx.st
        ELSE [ctx.st EXCEPT
                !.services = insert(@, service_name, service),
                !.origin = insert(@, service_name,
                                  [pod |-> pod_name, spec |-> spec_name, kind |-> "spec"])]

\* The (pod, spec) pairs in the order the two nested loops visit them:
\* `for (pod_name, pod) in manifest.pods`, `for (spec_name, spec) in pod.specs`
RECURSIVE PairsFrom(_, _, _)
PairsFrom(m, seed, i) ==
    LET pods == iter(DOMAIN m.pods, seed)
    IN  IF i > Len(pods) THEN <<>>
        ELSE LET specs == iter(DOMAIN m.pods[pods[i]], seed)
             IN [j \in 1..Len(specs) |-> <<pods[i], specs[j]>>]
                \o PairsFrom(m, seed, i + 1)

RECURSIVE LowerPairsFrom(_, _, _, _, _)
LowerPairsFrom(st, m, pairs, i, failAt) ==
    IF i > Len(pairs) THEN st
    ELSE LowerPairsFrom(
            LowerSpec(st, join(dir_path, m.name), pairs[i][1], pairs[i][2],
                      m.pods[pairs[i][1]][pairs[i][2]], failAt),
            m, pairs, i + 1, failAt)

\* DockerRuntime::convert_to_docker_compose_spec from compile state st: the state
\* after it, with .err set when a `?` returned early
convert_to_docker_compose_spec(st, m, seed, failAt) ==
    LowerPairsFrom(st, m, PairsFrom(m, seed, 1), 1, failAt)

\* Ok(DockerComposeSpec { services, networks })
DockerComposeSpec(st) ==
    [services |-> st.services, networks |-> insert(EmptyMap, "test", None)]

-----------------------------------------------------------------------------
(* Serialization: serde_yaml::to_string(&docker_compose_spec) *)

\* A YAML document: a mapping keeps its entries in the order they were serialized
YMap(entries) == [t |-> "map", e |-> entries]

YSeq(items) == [t |-> "seq", e |-> items]

YNull == [t |-> "null"]

\* impl Serialize for Port: format!("{}:{}", self.host, self.container)
SerializePort(port) == ToString(port.host) \o ":" \o ToString(port.container)

\* A HashMap<String, String> serialized entry by entry in iteration order
SerializeStringMap(map, seed) ==
    LET order == iter(DOMAIN map, seed)
    IN  YMap([i \in 1..Len(order) |-> <<order[i], map[order[i]]>>])

\* serialize_depends_on: None becomes (), Some(condition) becomes {condition: ...}
serialize_depends_on(map, seed) ==
    LET order == iter(DOMAIN map, seed)
    IN  YMap([i \in 1..Len(order) |->
            <<order[i],
              IF map[order[i]] = None THEN YNull
              ELSE YMap(<<<<"condition", map[order[i]][1]>>>>)>>])

\* A field under #[serde(skip_serializing_if = "...::is_empty")]
SkipIfEmpty(value, key, node) == IF value = <<>> THEN <<>> ELSE <<<<key, node>>>>

\* #[derive(Serialize)] struct DockerComposeService, fields in declaration order
SerializeService(svc, seed) ==
    YMap(<<<<"image", svc.image>>, <<"command", YSeq(svc.command)>>>>
         \o SkipIfEmpty(svc.entrypoint, "entrypoint", YSeq(svc.entrypoint))
         \o SkipIfEmpty(svc.labels, "labels",
                        SerializeStringMap(svc.labels, seed))
         \o SkipIfEmpty(svc.environment, "environment",
                        SerializeStringMap(svc.environment, seed))
         \o SkipIfEmpty(svc.ports, "ports",
                        YSeq([i \in 1..Len(svc.ports) |-> SerializePort(svc.ports[i])]))
         \o SkipIfEmpty(svc.networks, "networks", YSeq(svc.networks))
         \o SkipIfEmpty(svc.volumes, "volumes", YSeq(svc.volumes))
         \o SkipIfEmpty(svc.depends_on, "depends_on",
                        serialize_depends_on(svc.depends_on, seed)))

\* #[derive(Serialize)] struct DockerComposeSpec: the services map entry by entry
\* in iteration order, then the networks map
to_string(spec, seed) ==
    LET order == iter(DOMAIN spec.services, seed)
    IN  YMap(<<<<"services",
                 YMap([i \in 1..Len(order) |->
                        <<order[i], SerializeService(spec.services[order[i]], seed)>>])>>>>
             \o SkipIfEmpty(spec.networks, "networks",
                            YMap(<<<<"test", YNull>>>>)))

-----------------------------------------------------------------------------
(* Runtime::run for DockerRuntime *)

\* Path::new(&self.dir_path).join(&name)
parent_folder(m) == join(dir_path, m.name)

\* parent_folder.join("docker_compose.yaml")
compose_file_path(m) == join(parent_folder(m), "docker_compose.yaml")

\* run() up to the return of convert_to_docker_compose_spec, on filesystem d;
\* only = 0 for the whole of it, k for its k-th filesystem call alone
CompileWith(d, m, seed, failAt, only) ==
    LET st0 == [services |-> EmptyMap, origin |-> EmptyMap, disk |-> d,
                n |-> 0, err |-> FALSE, only |-> only]
        st1 == FsOp(st0, failAt, create_dir_all(d, parent_folder(m)))
    IN  convert_to_docker_compose_spec(st1, m, seed, failAt)

Compile(d, m, seed, failAt) == CompileWith(d, m, seed, failAt, 0)

\* The number of filesystem calls of a run that meets no error
NumOps(d, m, seed) == Compile(d, m, seed, 0).n + 1

-----------------------------------------------------------------------------
(* The manifests compiled *)

ManifestNames == {"eth"}

PodNames == {"el", "el-node"}

SpecNames == {"node", "init-genesis", "node-init-genesis"}

Jwt == File("jwt", "/data/jwt_secret", "deadbeef")

JwtOther == File("jwt", "/data/jwt_secret", "cafe")

Genesis == File("genesis", "/data/genesis.json", "https://example.com/genesis.json")

GenesisMirror == File("genesis", "/etc/genesis.json", "https://mirror.org/genesis.json")

Peers == File("peers", "/data/cfg/peers.toml", "https://example.com/peers.toml")

PlainHttp == File("cfg", "/etc/cfg.toml", "http://example.com/cfg.toml")

Reth ==
    [image |-> "x/reth", tag |-> Some("v1"),
     args |-> <<ArgValue("node"), ArgPort("authrpc", 8551),
                ArgValue("--datadir"), ArgDir("datadir", "/data")>>,
     entrypoint |-> <<>>, labels |-> EmptyMap, env |-> EmptyMap,
     artifacts |-> <<Jwt>>]

Lighthouse ==
    [image |-> "sigp/lighthouse", tag |-> None,
     args |-> <<ArgValue("--execution-endpoint"), ArgRef("el", "authrpc"),
                ArgFile(JwtOther), ArgValue("bn")>>,
     entrypoint |-> <<"lighthouse">>, labels |-> ("chain" :> "mainnet"),
     env |-> EmptyMap, artifacts |-> <<>>]

Bor ==
    [image |-> "0xpolygon/bor", tag |-> Some("2.0"),
     args |-> <<ArgFile(Genesis), ArgValue("server"), ArgPort("http", 8551)>>,
     entrypoint |-> <<>>, labels |-> EmptyMap,
     env |-> ("RUST_LOG" :> "info") @@ ("HOME" :> "/data"),
     artifacts |-> <<GenesisMirror, PlainHttp>>]

Heimdall ==
    [image |-> "0xpolygon/heimdall", tag |-> None,
     args |-> <<ArgDir("home", "/data/heimdall"), ArgValue("start")>>,
     entrypoint |-> <<>>, labels |-> EmptyMap, env |-> EmptyMap,
     artifacts |-> <<Genesis, Peers>>]

SpecPool == {Reth, Lighthouse, Bor, Heimdall}

Positions == PodNames \X SpecNames

\* The pods map that places spec at[<<pod, spec name>>] at each position of P
PodsOf(P, at) ==
    [pod \in {p[1] : p \in P} |->
        [spec_name \in {p[2] : p \in {q \in P : q[1] = pod}} |->
            at[<<pod, spec_name>>]]]

Manifests ==
    UNION {{Manifest(name, PodsOf(P, at)) :
                name \in ManifestNames, at \in [P -> SpecPool]} :
           P \in {Q \in SUBSET Positions : Cardinality(Q) <= MaxSpecs}}

-----------------------------------------------------------------------------
(* The state machine *)

\* No fetch was called
NoFetch == fetcher = [pc |-> "idle"]

\* Nothing is being built and no request was read
NoConstruction ==
    /\ builder = SpecBuilderDefault
    /\ built = [kind |-> "none"]
    /\ request = None
    /\ applied = [kind |-> "none"]

\* No backend exists: nothing compiled, nothing on disk, no task
NoBackend ==
    /\ disk = EmptyDisk
    /\ result = "none"
    /\ compiled = None
    /\ origin = EmptyMap
    /\ status = EmptyMap
    /\ procs = <<>>
    /\ observer = [task |-> "off", stdout |-> 0, stderr |-> 0]
    /\ process = "alive"

Init ==
    /\ manifest \in Manifests
    /\ NoBackend
    /\ NoConstruction
    /\ NoFetch

\* run(manifest): the whole handler.  mseed is the hash seed of the maps of the
\* Manifest, dseed that of the maps run() builds.  Either every filesystem call
\* succeeds and the descriptor is written, or the failAt-th call fails and `?`
\* returns there.
run ==
    /\ result = "none"
    /\ \E mseed \in HashSeeds :
        \/ LET st == Compile(disk, manifest, mseed, 0)
               spec == DockerComposeSpec(st)
           IN \E dseed \in HashSeeds :
                /\ disk' = write(st.disk, compose_file_path(manifest),
                                 to_string(spec, dseed))
                /\ result' = "ok"
                /\ compiled' = Some(spec)
                /\ origin' = st.origin
        \/ \E failAt \in 1..NumOps(disk, manifest, mseed) :
            LET st == Compile(disk, manifest, mseed, failAt)
            IN  /\ disk' = st.disk
                /\ result' = "err"
                /\ compiled' = IF st.err THEN None ELSE Some(DockerComposeSpec(st))
                /\ origin' = IF st.err THEN EmptyMap ELSE st.origin
    /\ UNCHANGED <<manifest, outsideRun>>

Next == run

Spec == Init /\ [][Next]_vars

-----------------------------------------------------------------------------
(* The engine bringing the descriptor up.  run() stops at the descriptor (the   *)
(* `docker-compose up` call is commented out): the engine is handed the file   *)
(* and starts the services as their depends_on entries allow.                  *)

\* depends_on entry `dep: {condition: service_completed_successfully}` is met once
\* dep has exited with status 0; a bare entry `dep:` once dep has been started
ConditionMet(dep, condition) ==
    IF condition = Some(ServiceCompletedSuccessfully)
    THEN status[dep] = "exited_ok"
    ELSE status[dep] # "created"

\* up: the engine creates one container per service of the descriptor
up ==
    /\ result = "ok"
    /\ status = EmptyMap
    /\ status' = [n \in DOMAIN compiled[1].services |-> "created"]
    /\ UNCHANGED outsideEngine

\* The engine starts a service whose depends_on conditions are all met
start ==
    \E n \in DOMAIN status :
        /\ status[n] = "created"
        /\ \A dep \in DOMAIN compiled[1].services[n].depends_on :
                ConditionMet(dep, compiled[1].services[n].depends_on[dep])
        /\ status' = [status EXCEPT ![n] = "running"]
        /\ UNCHANGED outsideEngine

\* A running container exits, with status 0 or not
exit ==
    \E n \in DOMAIN status : \E code \in {"exited_ok", "exited_err"} :
        /\ status[n] = "running"
        /\ status' = [status EXCEPT ![n] = code]
        /\ UNCHANGED outsideEngine

NextUp == run \/ up \/ start \/ exit

SpecUp == Init /\ [][NextUp]_vars

-----------------------------------------------------------------------------
(* One backend instance used by two callers: DockerRuntime::new spawns the     *)
(* observer task, then run() is called twice on the instance, from two tasks   *)
(* of the multi-threaded scheduler.  run() takes no lock and holds no await:   *)
(* what two calls interleave are their filesystem calls.                       *)

Callers == {1, 2}

\* The Manifests compiled concurrently: one pod with one spec, under one name
ConcManifests ==
    {Manifest(name, ("el" :> ("node" :> spec))) : name \in ManifestNames, spec \in SpecPool}

InitConc ==
    /\ manifest = Manifest("eth", EmptyMap)
    /\ disk = EmptyDisk
    /\ result = "none"
    /\ compiled = None
    /\ origin = EmptyMap
    /\ status = EmptyMap
    /\ procs \in [Callers -> {[manifest |-> m, pc |-> 0, result |-> "none", io_failed |-> FALSE] :
                                m \in ConcManifests}]
    /\ observer = [task |-> "spawned", stdout |-> 0, stderr |-> 0]
    /\ process = "alive"
    /\ NoConstruction
    /\ NoFetch

\* The next filesystem call of the run() call p: it fails and `?` returns the
\* error, or it is made; the last one writes the descriptor and run returns Ok.
\* A Manifest of ConcManifests has one (pod, spec) pair, so one iteration order.
run_step(p) ==
    /\ process = "alive"
    /\ procs[p].result = "none"
    /\ LET m == procs[p].manifest
           k == procs[p].pc + 1
       IN  \/ /\ procs' = [procs EXCEPT ![p].pc = k, ![p].result = "err",
                                         ![p].io_failed = TRUE]
              /\ UNCHANGED disk
           \/ /\ k < NumOps(disk, m, 0)
              /\ disk' = CompileWith(disk, m, 0, 0, k).disk
              /\ procs' = [procs EXCEPT ![p].pc = k]
           \/ /\ k = NumOps(disk, m, 0)
              /\ \E dseed \in HashSeeds :
                    disk' = write(disk, compose_file_path(m),
                                  to_string(DockerComposeSpec(Compile(disk, m, 0, 0)), dseed))
              /\ procs' = [procs EXCEPT ![p].pc = k, ![p].result = "ok"]
    /\ UNCHANGED outsideProcs

\* connect_failed with the panic taking the process down
connect_failed_aborts ==
    /\ process = "alive"
    /\ observer.task = "spawned"
    /\ observer' = [observer EXCEPT !.task = "panicked"]
    /\ process' = "aborted"
    /\ UNCHANGED <<manifest, disk, result, compiled, origin, status, procs, constructionVars,
                   fetcher>>

\* Docker::connect_with_local_defaults() returns Err: unwrap() panics inside the
\* spawned task; the scheduler catches the panic at the task boundary and the
\* task ends
connect_failed ==
    /\ process = "alive"
    /\ observer.task = "spawned"
    /\ observer' = [observer EXCEPT !.task = "panicked"]
    /\ UNCHANGED outsideObserver

\* The connection handle is built and the task subscribes to the event stream
connect_ok ==
    /\ process = "alive"
    /\ observer.task = "spawned"
    /\ observer' = [observer EXCEPT !.task = "listening"]
    /\ UNCHANGED outsideObserver

\* events.next(): Some(Ok(event)) is printed, Some(Err(e)) is printed to stderr
\* (an unreachable engine shows here), None ends the loop and the task
observer_event ==
    /\ process = "alive"
    /\ observer.task = "listening"
    /\ \/ /\ observer.stdout + observer.stderr < MaxEvents
          /\ observer' = [observer EXCEPT !.stdout = @ + 1]
       \/ /\ observer.stdout + observer.stderr < MaxEvents
          /\ observer' = [observer EXCEPT !.stderr = @ + 1]
       \/ observer' = [observer EXCEPT !.task = "ended"]
    /\ UNCHANGED outsideObserver

NextConc ==
    \/ \E p \in Callers : run_step(p)
    \/ connect_failed
    \/ connect_ok
    \/ observer_event

SpecConc == InitConc /\ [][NextConc]_vars

-----------------------------------------------------------------------------
(* One backend instance whose run() is called again and again, each call       *)
(* returning before the next is made: every call works on the root the earlier *)
(* calls left.                                                                 *)

InitRerun ==
    /\ manifest = Manifest("eth", EmptyMap)
    /\ NoBackend
    /\ NoConstruction
    /\ NoFetch

\* run(m) on the root as it is: the whole handler, as `run`, logged in procs
run_again ==
    /\ Len(procs) < MaxRuns
    /\ \E m \in ConcManifests :
        /\ manifest' = m
        /\ \/ LET st == Compile(disk, m, 0, 0)
                  spec == DockerComposeSpec(st)
              IN \E dseed \in HashSeeds :
                    /\ disk' = write(st.disk, compose_file_path(m),
                                     to_string(spec, dseed))
                    /\ result' = "ok"
                    /\ compiled' = Some(spec)
                    /\ origin' = st.origin
                    /\ procs' = Append(procs,
                            [manifest |-> m, pc |-> st.n + 1, result |-> "ok",
                             io_failed |-> FALSE])
           \/ \E failAt \in 1..NumOps(disk, m, 0) :
                LET st == Compile(disk, m, 0, failAt)
                IN  /\ disk' = st.disk
                    /\ result' = "err"
                    /\ compiled' = IF st.err THEN None ELSE Some(DockerComposeSpec(st))
                    /\ origin' = IF st.err THEN EmptyMap ELSE st.origin
                    /\ procs' = Append(procs,
                            [manifest |-> m, pc |-> failAt, result |-> "err",
                             io_failed |-> TRUE])
    /\ UNCHANGED <<status, observer, process, constructionVars, fetcher>>

NextRerun == run_again

SpecRerun == InitRerun /\ [][NextRerun]_vars

-----------------------------------------------------------------------------
(* A caller filling a SpecBuilder and finalizing it *)

BuilderImages == {"x/reth", ""}

BuilderArgs == {ArgValue("node"), ArgPort("authrpc", 8551), ArgFile(File("jwt", "/data/jwt_secret", "deadbeef"))}

InitBuilder ==
    /\ manifest = Manifest("eth", EmptyMap)
    /\ NoBackend
    /\ NoConstruction
    /\ NoFetch

builder_image ==
    /\ built.kind = "none"
    /\ \E image \in BuilderImages : builder' = SpecBuilder_image(builder, image)
    /\ UNCHANGED <<built, outsideBuilder>>

builder_tag ==
    /\ built.kind = "none"
    /\ builder' = SpecBuilder_tag(builder, "v1")
    /\ UNCHANGED <<built, outsideBuilder>>

builder_arg ==
    /\ built.kind = "none"
    /\ Len(builder.args) + 1 <= MaxArgs
    /\ \E a \in BuilderArgs : builder' = SpecBuilder_arg(builder, a)
    /\ UNCHANGED <<built, outsideBuilder>>

builder_arg2 ==
    /\ built.kind = "none"
    /\ Len(builder.args) + 2 <= MaxArgs
    /\ \E a \in BuilderArgs : builder' = SpecBuilder_arg2(builder, "--datadir", a)
    /\ UNCHANGED <<built, outsideBuilder>>

builder_args ==
    /\ built.kind = "none"
    /\ Len(builder.args) + 2 <= MaxArgs
    /\ \E a \in BuilderArgs :
            builder' = SpecBuilder_args(builder, <<ArgFromStr("--full"), a>>)
    /\ UNCHANGED <<built, outsideBuilder>>

builder_env ==
    /\ built.kind = "none"
    /\ \E value \in {"info", "debug"} :
            builder' = SpecBuilder_env(builder, "RUST_LOG", value)
    /\ UNCHANGED <<built, outsideBuilder>>

builder_entrypoint ==
    /\ built.kind = "none"
    /\ builder' = SpecBuilder_entrypoint(builder, <<"lighthouse">>)
    /\ UNCHANGED <<built, outsideBuilder>>

builder_label ==
    /\ built.kind = "none"
    /\ builder' = SpecBuilder_label(builder, "chain", "mainnet")
    /\ UNCHANGED <<built, outsideBuilder>>

builder_artifact ==
    /\ built.kind = "none"
    /\ Len(builder.artifacts) + 1 <= MaxArtifacts
    /\ builder' = SpecBuilder_artifact(builder, File("genesis", "/data/genesis.json",
                                                     "https://example.com/genesis.json"))
    /\ UNCHANGED <<built, outsideBuilder>>

builder_volume ==
    /\ built.kind = "none"
    /\ builder' = SpecBuilder_volume(builder, Volume("data"))
    /\ UNCHANGED <<built, outsideBuilder>>

\* builder.build(): the builder is consumed
builder_build ==
    /\ built.kind = "none"
    /\ built' = SpecBuilder_build(builder)
    /\ UNCHANGED <<builder, outsideBuilder>>

\* Pod::default().with_spec("node", builder): the builder is consumed
pod_with_spec ==
    /\ built.kind = "none"
    /\ built' = Pod_with_spec(EmptyMap, "node", builder)
    /\ UNCHANGED <<builder, outsideBuilder>>

NextBuilder ==
    \/ builder_image
    \/ builder_tag
    \/ builder_arg
    \/ builder_arg2
    \/ builder_args
    \/ builder_env
    \/ builder_entrypoint
    \/ builder_label
    \/ builder_artifact
    \/ builder_volume
    \/ builder_build
    \/ pod_with_spec

SpecBuild == InitBuilder /\ [][NextBuilder]_vars

-----------------------------------------------------------------------------
(* main: the request is read, catalog::apply makes the Manifest, then the      *)
(* backend is constructed and deploys it.  Each `?` returns from main.         *)

EmptyObject == JObj(EmptyMap)

EthArgsLighthouse ==
    JObj(("el_node" :> JObj(("reth" :> EmptyObject)))
         @@ ("cl_node" :> JObj(("lighthouse" :> EmptyObject))))

EthArgsPrysm ==
    JObj(("el_node" :> JObj(("reth" :> EmptyObject)))
         @@ ("cl_node" :> JObj(("prysm" :> EmptyObject)))
         @@ ("comment" :> JStr("extra fields are ignored")))

EthArgsNoClNode == JObj(("el_node" :> JObj(("reth" :> EmptyObject))))

EthArgsUnknownVariant ==
    JObj(("el_node" :> JObj(("geth" :> EmptyObject)))
         @@ ("cl_node" :> JObj(("lighthouse" :> EmptyObject))))

EthArgsVariantAsString ==
    JObj(("el_node" :> JStr("reth")) @@ ("cl_node" :> JStr("lighthouse")))

PolygonArgs == JObj(("heimdall" :> EmptyObject) @@ ("bor" :> EmptyObject))

BerachainArgs == JObj(("beacon_kit" :> EmptyObject) @@ ("bera_reth" :> EmptyObject))

ArgsPool ==
    {EthArgsLighthouse, EthArgsPrysm, EthArgsNoClNode, EthArgsUnknownVariant,
     EthArgsVariantAsString, PolygonArgs, BerachainArgs, JNull}

\* The requests main may read: Dep { module, chain, args }
Deps ==
    [module : {"ethereum", "polygon", "berachain", "solana"},
     chain : {"mainnet", "sepolia", "amoy", "nochain"},
     args : ArgsPool]

\* What a call of the catalog may meet outside the program
Envs ==
    [keys : {"node-key-1", "node-key-2"},
     val_keys : {"validator-key-1"},
     fetched : {None, Some([bootnodes |-> "enode://boot", peers |-> "enode://peer"])}]

InitMain ==
    /\ manifest = Manifest("eth", EmptyMap)
    /\ NoBackend
    /\ builder = SpecBuilderDefault
    /\ built = [kind |-> "none"]
    /\ request \in {Some(dep) : dep \in Deps}
    /\ applied = [kind |-> "none"]
    /\ NoFetch

\* let manifest = catalog::apply(input)?
main_apply ==
    /\ process = "alive"
    /\ request # None
    /\ applied.kind = "none"
    /\ \E env \in Envs :
        /\ applied' = apply(request[1], env)
        /\ manifest' = IF applied'.kind = "ok" THEN applied'.manifest ELSE manifest
        /\ process' = IF applied'.kind = "panic" THEN "panicked" ELSE process
    /\ UNCHANGED outsideCatalog

\* DockerRuntime::new("composer"): the observer task is spawned
main_new ==
    /\ process = "alive"
    /\ applied.kind = "ok"
    /\ observer.task = "off"
    /\ observer' = [observer EXCEPT !.task = "spawned"]
    /\ UNCHANGED outsideObserver

\* svc.deploy(manifest).await?
main_deploy ==
    /\ process = "alive"
    /\ observer.task # "off"
    /\ run

NextMain ==
    \/ main_apply
    \/ main_new
    \/ main_deploy
    \/ connect_failed
    \/ connect_ok
    \/ observer_event

SpecMain == InitMain /\ [][NextMain]_vars

-----------------------------------------------------------------------------
(* crates/fetcher: fetch, fetch_with_progress, fetch_http.  One call, followed  *)
(* from one call it makes on the tracker or the network to the next.           *)

\* str::ends_with
ends_with(s, p) == Len(s) >= Len(p) /\ SubSeq(s, Len(s) - Len(p) + 1, Len(s)) = p

\* str::find of a one-character pattern: its first position, 0 when absent
find(s, c) ==
    LET at == {i \in 1..Len(s) : SubSeq(s, i, i) = c}
    IN  IF at = {} THEN 0 ELSE CHOOSE i \in at : \A j \in at : i <= j

\* Url::parse: scheme and path of an absolute URL; an error (None) for a string
\* without a scheme and for an http, https or ftp URL without a host.  The path
\* ends before the query and the fragment.
Url_parse(source) ==
    LET colon == find(source, ":")
        scheme == SubSeq(source, 1, colon - 1)
        rest == SubSeq(source, colon + 1, Len(source))
        hier == IF starts_with(rest, "//") THEN SubSeq(rest, 3, Len(rest)) ELSE rest
        slash == find(hier, "/")
        host == IF slash = 0 THEN hier ELSE SubSeq(hier, 1, slash - 1)
        tail == IF slash = 0 THEN "/" ELSE SubSeq(hier, slash, Len(hier))
        cuts == {find(tail, "?"), find(tail, "#")} \ {0}
        path == IF cuts = {} THEN tail
                ELSE SubSeq(tail, 1, (CHOOSE i \in cuts : \A j \in cuts : i <= j) - 1)
    IN  IF colon <= 1 \/ find(scheme, "/") # 0 \/ find(scheme, " ") # 0 THEN None
        ELSE IF scheme \in {"http", "https", "ftp"} /\ host = "" THEN None
        ELSE Some([scheme |-> scheme, path |-> path])

\* ArchiveFormat::detect
ArchiveFormat_detect(url) ==
    IF ends_with(url.path, ".tar.gz") \/ ends_with(url.path, ".tgz")
    THEN "TarGz"
    ELSE "None"

\* NoOpProgressTracker, the tracker of fetch(); calls is the history of the calls
\* made on the tracker
NoOpProgressTracker ==
    [kind |-> "noop", total |-> None, downloaded |-> 0, calls |-> <<>>]

\* ConsoleProgressTracker::new(), the tracker of the fetcher binary
ConsoleProgressTracker_new ==
    [kind |-> "console", total |-> None, downloaded |-> 0, calls |-> <<>>]

\* ProgressTracker::set_total
set_total(t, total) ==
    [t EXCEPT !.total = IF t.kind = "console" THEN Some(total) ELSE @,
              !.calls = Append(@, [call |-> "set_total", n |-> total])]

\* ProgressTracker::update
update(t, downloaded) ==
    [t EXCEPT !.downloaded = IF t.kind = "console" THEN downloaded ELSE @,
              !.calls = Append(@, [call |-> "update", n |-> downloaded])]

\* ProgressTracker::finish
finish(t) == [t EXCEPT !.calls = Append(@, [call |-> "finish", n |-> 0])]

\* StatusCode::is_success
is_success(code) == code >= 200 /\ code < 300

\* The bytes of a sequence of chunks
RECURSIVE Concat(_)
Concat(chunks) ==
    IF chunks = <<>> THEN "" ELSE Head(chunks) \o Concat(Tail(chunks))

\* What inner.read delivers at a time
Chunks == {"ab", "tgz(a:", "hi)"}

\* The responses of the server: a status and a body, with or without a
\* Content-Length header
Responses ==
    UNION {{[status |-> code, content_length |-> content_length, body |-> body] :
                code \in {200, 404},
                content_length \in {None, Some(Len(Concat(body)))}} :
           body \in UNION {[1..n -> Chunks] : n \in 0..MaxChunks}}

\* GzDecoder and Archive::unpack: the entries of a well-formed archive, an error
\* (None) for other bytes.  An archive of one entry is written tgz(path:content).
unpack(bytes) ==
    LET colon == find(bytes, ":")
    IN  IF starts_with(bytes, "tgz(") /\ ends_with(bytes, ")") /\ colon > 5
        THEN Some(<<[path |-> SubSeq(bytes, 5, colon - 1),
                     content |-> SubSeq(bytes, colon + 1, Len(bytes) - 1)]>>)
        ELSE None

\* File::create that keeps the content of an existing file
File_create_keep(d, p) ==
    IF canonicalize(p) \in DOMAIN d.files THEN d ELSE write(d, p, "")

\* File::create: a new empty file, an existing one truncated
File_create(d, p) == write(d, p, "")

\* Write::write_all on the created file
write_all(d, p, chunk) ==
    [d EXCEPT !.files[canonicalize(p)] = @ \o chunk]

\* ProgressReader::read that reports the bytes of the last read alone
ProgressReader_last_read(downloaded, bytes_read) == bytes_read

\* ProgressReader::read: self.downloaded += bytes_read
ProgressReader_downloaded(downloaded, bytes_read) == downloaded + bytes_read

Sources ==
    {"https://example.com/genesis.json", "http://example.com/cfg.toml",
     "https://example.com/snapshot.tar.gz", "https://example.com/a.tgz?sig=1",
     "ftp://example.com/file", "genesis.json"}

Destinations == {"/tmp/out/file", "out/readme.md"}

\* fetch(source, destination) with the no-op tracker, or the binary calling
\* fetch_with_progress with the console tracker; the destination may exist
InitFetch ==
    /\ manifest = Manifest("eth", EmptyMap)
    /\ result = "none"
    /\ compiled = None
    /\ origin = EmptyMap
    /\ status = EmptyMap
    /\ procs = <<>>
    /\ observer = [task |-> "off", stdout |-> 0, stderr |-> 0]
    /\ process = "alive"
    /\ NoConstruction
    /\ \E source \in Sources : \E destination \in Destinations :
        /\ disk \in {EmptyDisk, write(EmptyDisk, destination, "stale")}
        /\ \E progress \in {NoOpProgressTracker, ConsoleProgressTracker_new} :
            fetcher = [pc |-> "called", source |-> source, destination |-> destination,
                       progress |-> progress, response |-> None, format |-> "None",
                       pos |-> 0, downloaded |-> 0, result |-> "none"]

\* The call returns Err
Bail(f) == [f EXCEPT !.pc = "returned", !.result = "err"]

\* fetch_with_progress and fetch_http up to the match on the archive format and,
\* for a plain file, File::create: the URL is parsed, the parent directory
\* made, the request sent, the status checked, the total announced.  Each `?`
\* and each bail! may return.
fetch_open ==
    /\ fetcher.pc = "called"
    /\ LET url == Url_parse(fetcher.source)
           dir == parent(fetcher.destination)
           made == IF dir = None THEN disk ELSE create_dir_all(disk, dir[1])
       IN  IF url = None \/ url[1].scheme \notin {"http", "https"}
           THEN fetcher' = Bail(fetcher) /\ disk' = disk
           ELSE \/ dir # None /\ fetcher' = Bail(fetcher) /\ disk' = disk
                \/ fetcher' = Bail(fetcher) /\ disk' = made
                \/ \E response \in Responses :
                    LET got == [fetcher EXCEPT !.response = Some(response),
                                               !.format = ArchiveFormat_detect(url[1])]
                        told == IF response.content_length = None THEN got
                                ELSE [got EXCEPT !.progress =
                                        set_total(@, response.content_length[1])]
                    IN  IF ~is_success(response.status)
                        THEN fetcher' = Bail(got) /\ disk' = made
                        ELSE IF told.format = "TarGz"
                        THEN fetcher' = [told EXCEPT !.pc = "extract"] /\ disk' = made
                        ELSE \/ fetcher' = Bail(told) /\ disk' = made
                             \/ /\ fetcher' = [told EXCEPT !.pc = "copy"]
                                /\ disk' = File_create(made, fetcher.destination)
    /\ UNCHANGED outsideFetch

\* ProgressReader::read once: inner.read fails, or it delivers the next chunk (0
\* bytes at the end of the body) and update is called with the running count
ProgressReader_read(f) ==
    LET body == f.response[1].body
        bytes_read == IF f.pos < Len(body) THEN Len(body[f.pos + 1]) ELSE 0
        downloaded == ProgressReader_downloaded(f.downloaded, bytes_read)
    IN  [f EXCEPT !.pos = IF f.pos < Len(body) THEN @ + 1 ELSE @,
                  !.downloaded = downloaded,
                  !.progress = update(@, downloaded)]

\* One turn of std::io::copy(&mut progress_reader, &mut file): a read, then the
\* write of what was read; the read of 0 bytes ends the copy, finish is called
\* and Ok returned
fetch_copy ==
    /\ fetcher.pc = "copy"
    /\ \/ fetcher' = Bail(fetcher) /\ disk' = disk
       \/ LET f == ProgressReader_read(fetcher)
          IN  IF fetcher.pos < Len(fetcher.response[1].body)
              THEN \/ fetcher' = Bail(f) /\ disk' = disk
                   \/ /\ fetcher' = f
                      /\ disk' = write_all(disk, fetcher.destination,
                                           fetcher.response[1].body[f.pos])
              ELSE /\ fetcher' = [f EXCEPT !.progress = finish(@),
                                           !.pc = "returned", !.result = "ok"]
                   /\ disk' = disk
    /\ UNCHANGED outsideFetch

\* One read of extract_tar_gz(&mut progress_reader, destination); at the end of
\* the body the archive is unpacked under destination, unless it is malformed or
\* the destination cannot hold it
fetch_extract ==
    /\ fetcher.pc = "extract"
    /\ \/ fetcher' = Bail(fetcher) /\ disk' = disk
       \/ LET f == ProgressReader_read(fetcher)
              entries == unpack(Concat(fetcher.response[1].body))
          IN  IF fetcher.pos < Len(fetcher.response[1].body)
              THEN fetcher' = f /\ disk' = disk
              ELSE IF entries = None
                      \/ canonicalize(fetcher.destination) \in DOMAIN disk.files
              THEN fetcher' = Bail(f) /\ disk' = disk
              ELSE /\ fetcher' = [f EXCEPT !.progress = finish(@),
                                           !.pc = "returned", !.result = "ok"]
                   /\ disk' = write(create_dir_all(disk, fetcher.destination),
                                    join(fetcher.destination, entries[1][1].path),
                                    entries[1][1].content)
    /\ UNCHANGED outsideFetch

NextFetch == fetch_open \/ fetch_copy \/ fetch_extract

SpecFetch == InitFetch /\ [][NextFetch]_vars

-----------------------------------------------------------------------------
(* Vocabulary of the properties *)

Range(seq) == {seq[i] : i \in 1..Len(seq)}

\* The (pod, spec name) pairs of the Manifest
Pairs ==
    {p \in Positions :
        p[1] \in DOMAIN manifest.pods /\ p[2] \in DOMAIN manifest.pods[p[1]]}

SpecAt(p) == manifest.pods[p[1]][p[2]]

\* The artifacts of a spec: those carried by its File args, then its own
ArtifactsOf(spec) ==
    {spec.args[i].file : i \in {j \in 1..Len(spec.args) : spec.args[j].kind = "File"}}
    \cup Range(spec.artifacts)

\* The services of the descriptor convert_to_docker_compose_spec returned
Services == compiled[1].services

\* The services that were lowered from a spec, each owned by its (pod, spec)
OwnedServices == {n \in DOMAIN Services : origin[n].kind = "spec"}

OwnerSpec(n) == manifest.pods[origin[n].pod][origin[n].spec]

\* Where the backend stages things for the Manifest
HostConfigFile(name) ==
    join(canonicalize(join(join(dir_path, manifest.name), "_config")), name)

DescriptorFile == canonicalize(join(join(dir_path, manifest.name), "docker_compose.yaml"))

\* The node under `key` of a YAML mapping
YGet(node, key) ==
    node.e[CHOOSE i \in 1..Len(node.e) : node.e[i][1] = key][2]

YHas(node, key) == \E i \in 1..Len(node.e) : node.e[i][1] = key

\* The volume strings of a service that bind a host directory at /data
DataBinds(svc) ==
    {SubSeq(v, 1, Len(v) - 6) :
        v \in {w \in Range(svc.volumes) :
                Len(w) > 6 /\ SubSeq(w, Len(w) - 5, Len(w)) = ":/data"}}

\* small is a subsequence of big: its elements occur in big in the same order
IsSubsequence(small, big) ==
    \E f \in [1..Len(small) -> 1..Len(big)] :
        /\ \A i, j \in 1..Len(small) : i < j => f[i] < f[j]
        /\ \A i \in 1..Len(small) : big[f[i]] = small[i]

IsFileArg(arg) == arg.kind = "File"

IsTokenArg(arg) == arg.kind \in {"Value", "Dir", "Port"}

\* What a Literal, a Directory and a Port are specified to lower to
SpecifiedToken(arg) ==
    CASE arg.kind = "Value" -> arg.value
      [] arg.kind = "Dir" -> arg.path
      [] arg.kind = "Port" -> "--" \o arg.name \o "=" \o ToString(arg.preferred)

\* Some spec of the Manifest declares a Port Arg named port
PortDeclared(port) ==
    \E p \in Pairs : \E arg \in Range(SpecAt(p).args) :
        arg.kind = "Port" /\ arg.name = port

\* The spec with its File args taken out of args and put first among its artifacts
Routed(spec) ==
    LET files == SelectSeq(spec.args, IsFileArg)
    IN  [spec EXCEPT
            !.args = SelectSeq(spec.args, LAMBDA a : ~IsFileArg(a)),
            !.artifacts = [i \in 1..Len(files) |-> files[i].file] \o @]

RoutedManifest ==
    [manifest EXCEPT
        !.pods = [pod \in DOMAIN @ |-> [sn \in DOMAIN @[pod] |-> Routed(@[pod][sn])]]]

\* The files of a filesystem apart from the descriptor
StagedFiles(d) == [f \in DOMAIN d.files \ {DescriptorFile} |-> d.files[f]]

-----------------------------------------------------------------------------
(* Properties *)

\* C1: for every Artifact of a spec (spec-level or carried by a File Arg) whose
\* content starts with "https://", the returned descriptor holds the init service
\* of that artifact under the name {pod}-{spec}-init-{artifact}, and the service
\* {pod}-{spec} depends on it with condition service_completed_successfully.
C1_RemoteArtifactHasInitService ==
    compiled # None =>
        \A p \in Pairs : \A file \in ArtifactsOf(SpecAt(p)) :
            starts_with(file.content, "https://") =>
                LET init == InitServiceName(p[1], p[2], file.name)
                    owner == ServiceName(p[1], p[2])
                IN  /\ init \in DOMAIN Services
                    /\ Services[init].image = "curlimages/curl:latest"
                    /\ Len(Services[init].command) = 3
                    /\ LET c == Services[init].command[3]
                           url == file.content
                       IN  /\ Len(c) > Len(url)
                           /\ SubSeq(c, Len(c) - Len(url) + 1, Len(c)) = url
                    /\ owner \in DOMAIN Services
                    /\ init \in DOMAIN Services[owner].depends_on
                    /\ Services[owner].depends_on[init]
                            = Some("service_completed_successfully")

\* C2: after a successful run, for every Artifact whose content does not start
\* with "https://", the service owned by its spec has the bind mount
\* "<host file>:<target_path>" and that host file holds exactly the artifact's
\* content, for all artifacts of the Manifest at once.
C2_InlineArtifactStaged ==
    result = "ok" =>
        \A n \in OwnedServices : \A file \in ArtifactsOf(OwnerSpec(n)) :
            ~starts_with(file.content, "https://") =>
                LET host == HostConfigFile(file.name)
                IN  /\ (host \o ":" \o file.target_path) \in Range(Services[n].volumes)
                    /\ host \in DOMAIN disk.files
                    /\ disk.files[host] = file.content

\* The descriptor a compile of m into a fresh root writes
Descriptor(m, mseed, dseed) ==
    to_string(DockerComposeSpec(Compile(EmptyDisk, m, mseed, 0)), dseed)

\* C3: the serialized descriptor of a Manifest is the same for every iteration
\* order of the maps met while lowering and serializing: the descriptor on disk is
\* the one any other compile of the same Manifest into a fresh root writes.
C3_Deterministic ==
    result = "ok" =>
        \A mseed \in HashSeeds : \A dseed \in HashSeeds :
            disk.files[DescriptorFile] = Descriptor(manifest, mseed, dseed)

\* C4: when a filesystem call of run fails, run returns the error and no file
\* written by the failed compile (staged artifact or descriptor) is left on disk.
C4_NoPartialResult ==
    result = "err" => DOMAIN disk.files = {}

\* C5: a Ref Arg lowers to the address of the port it names, and the compile fails
\* when no spec of the Manifest declares a Port Arg of that name.
C5_CrossReferenceResolved ==
    \A p \in Pairs : \A arg \in Range(SpecAt(p).args) :
        arg.kind = "Ref" =>
            IF PortDeclared(arg.port)
            THEN compiled # None =>
                    \A n \in OwnedServices :
                        <<origin[n].pod, origin[n].spec>> = p =>
                            \E token \in Range(Services[n].command) :
                                /\ token # ""
                                /\ token \notin {SpecifiedToken(a) :
                                        a \in {b \in Range(SpecAt(p).args) : IsTokenArg(b)}}
            ELSE result # "ok" /\ compiled = None

\* C6: for every (pod, spec) pair of the Manifest the returned descriptor holds a
\* service named {pod}-{spec} whose fields are lowered from that spec.
C6_OneServicePerPair ==
    compiled # None =>
        \A p \in Pairs :
            LET n == ServiceName(p[1], p[2])
                spec == SpecAt(p)
            IN  /\ n \in DOMAIN Services
                /\ Services[n].image
                    = spec.image \o ":" \o (IF spec.tag = None THEN "latest" ELSE spec.tag[1])
                /\ Services[n].entrypoint = spec.entrypoint
                /\ Services[n].environment = spec.env

C8_TokensInDeclarationOrder ==
    compiled # None =>
        \A n \in OwnedServices :
            LET args == SelectSeq(OwnerSpec(n).args, IsTokenArg)
            IN  IsSubsequence([i \in 1..Len(args) |-> SpecifiedToken(args[i])],
                              Services[n].command)

C8_Witness ==
    /\ compiled # None
    /\ \E n \in OwnedServices :
        LET args == OwnerSpec(n).args
        IN  \E i, j \in 1..Len(args) :
                /\ i < j
                /\ args[i].kind = "Value"
                /\ args[j].kind = "Dir"
                /\ args[i].value # args[j].path

\* C9: a File Arg adds no token to the command, and its artifact is materialized
\* as a spec-level Artifact is: the compile yields what it yields for the Manifest
\* whose File args are moved to the front of their spec's artifacts, with an init
\* service in depends_on when the content starts with "https://" and a bind mount
\* of the staged host file otherwise.
C9_FileArgRoutedToArtifacts ==
    compiled # None =>
        /\ \A n \in OwnedServices :
            LET spec == OwnerSpec(n)
                files == SelectSeq(spec.args, IsFileArg)
            IN  /\ Len(Services[n].command) <= Len(spec.args) - Len(files)
                /\ \A i \in 1..Len(files) :
                    LET file == files[i].file
                    IN  IF starts_with(file.content, "https://")
                        THEN InitServiceName(origin[n].pod, origin[n].spec, file.name)
                                \in DOMAIN Services[n].depends_on
                        ELSE (HostConfigFile(file.name) \o ":" \o file.target_path)
                                \in Range(Services[n].volumes)
        /\ \E mseed \in HashSeeds :
            LET st == Compile(EmptyDisk, RoutedManifest, mseed, 0)
            IN  /\ compiled[1] = DockerComposeSpec(st)
                /\ StagedFiles(disk) = StagedFiles(st.disk)

C9_Witness ==
    /\ compiled # None
    /\ \E n \in OwnedServices : \E arg \in Range(OwnerSpec(n).args) :
        arg.kind = "File" /\ starts_with(arg.file.content, "https://")
    /\ \E n \in OwnedServices : \E arg \in Range(OwnerSpec(n).args) :
        arg.kind = "File" /\ ~starts_with(arg.file.content, "https://")

\* C10: the services lowered from specs of one pod bind the same host directory at
\* /data, and services of different pods of the Manifest bind different ones.
C10_OneDataDirPerPod ==
    compiled # None =>
        \A n1 \in OwnedServices : \A n2 \in OwnedServices :
            /\ Cardinality(DataBinds(Services[n1])) = 1
            /\ origin[n1].pod = origin[n2].pod =>
                    DataBinds(Services[n1]) = DataBinds(Services[n2])
            /\ origin[n1].pod # origin[n2].pod =>
                    DataBinds(Services[n1]) \cap DataBinds(Services[n2]) = {}

\* C11: every service of the returned descriptor, init services included, carries
\* the label bbuilder=true, and the labels of a {pod}-{spec} service are the spec's
\* labels plus that label.
C11_IdentifyingLabel ==
    compiled # None =>
        /\ \A n \in DOMAIN Services :
            /\ "bbuilder" \in DOMAIN Services[n].labels
            /\ Services[n].labels["bbuilder"] = "true"
        /\ \A n \in OwnedServices :
            /\ DOMAIN Services[n].labels = DOMAIN OwnerSpec(n).labels \cup {"bbuilder"}
            /\ \A k \in DOMAIN OwnerSpec(n).labels \ {"bbuilder"} :
                    Services[n].labels[k] = OwnerSpec(n).labels[k]

\* C12: every service of the returned descriptor, init services included, lists
\* the one shared network in its networks field, and the top-level networks
\* mapping declares that network.
C12_SharedNetwork ==
    compiled # None =>
        \E net \in DOMAIN compiled[1].networks :
            \A n \in DOMAIN Services : Services[n].networks = <<net>>

\* The init services of the descriptor, each with the (pod, spec) that inserted it
InitServices == {n \in DOMAIN Services : origin[n].kind = "init"}

\* C19: the command of an init service downloads its artifact's URL to the path at
\* which the owning service sees the file at the artifact's target_path: the
\* target_path itself, the data directory being mounted at /data in both.
C19_DownloadedAtTargetPath ==
    compiled # None =>
        \A n \in InitServices :
            \E file \in ArtifactsOf(OwnerSpec(n)) :
                /\ starts_with(file.content, "https://")
                /\ InitServiceName(origin[n].pod, origin[n].spec, file.name) = n
                /\ Services[n].command =
                        <<"sh", "-c",
                          "mkdir -p $(dirname " \o file.target_path
                          \o ") && curl -L -o " \o file.target_path
                          \o " " \o file.content>>
                /\ "/data" \in {SubSeq(v, Len(v) - 4, Len(v)) :
                                    v \in {w \in Range(Services[n].volumes) : Len(w) > 5}}

\* C20: the bind mount of an inline artifact is read-only: the volume entry of the
\* owning service for the staged host file at target_path carries the read-only
\* mark of the descriptor format (a third field "ro").
C20_InlineMountReadOnly ==
    compiled # None =>
        \A n \in OwnedServices : \A file \in ArtifactsOf(OwnerSpec(n)) :
            ~starts_with(file.content, "https://") =>
                (HostConfigFile(file.name) \o ":" \o file.target_path \o ":ro")
                    \in Range(Services[n].volumes)

\* The command that downloads the artifact's URL to the artifact's target path
DownloadsToTarget(command, file) ==
    command = <<"sh", "-c",
                "mkdir -p $(dirname " \o file.target_path
                \o ") && curl -L -o " \o file.target_path \o " " \o file.content>>

\* The init services the service n waits for that download file to its target path
DownloadersOf(n, file) ==
    {i \in DOMAIN Services[n].depends_on :
        /\ i \in DOMAIN Services
        /\ Services[n].depends_on[i] = Some("service_completed_successfully")
        /\ DownloadsToTarget(Services[i].command, file)}

\* C13: in a startup that honours depends_on, a {pod}-{spec} service has left the
\* created state only if, for each remote artifact of its spec, an init service
\* that downloads the artifact's URL to its target path has exited successfully;
\* while such an init service has failed, the owning service is not started.
C13_StartsAfterDownloads ==
    status # EmptyMap =>
        \A n \in OwnedServices : \A file \in ArtifactsOf(OwnerSpec(n)) :
            starts_with(file.content, "https://") =>
                /\ status[n] # "created" =>
                        \E i \in DownloadersOf(n, file) : status[i] = "exited_ok"
                /\ (\E i \in DownloadersOf(n, file) : status[i] = "exited_err") =>
                        status[n] = "created"

\* The filesystem after a whole successful run(m) on filesystem d
AfterRun(d, m, dseed) ==
    write(Compile(d, m, 0, 0).disk, compose_file_path(m),
          to_string(DockerComposeSpec(Compile(d, m, 0, 0)), dseed))

\* C14: when two concurrent run() calls for Manifests of the same name have both
\* returned Ok, the files on disk (descriptor and _config files) are those that
\* running the two compiles one after the other, in one of the two orders, leaves.
C14_Serialized ==
    (procs # <<>> /\ \A p \in Callers : procs[p].result = "ok") =>
        \E first \in Callers : \E second \in Callers \ {first} :
            \E d1 \in HashSeeds : \E d2 \in HashSeeds :
                disk = AfterRun(AfterRun(EmptyDisk, procs[first].manifest, d1),
                                procs[second].manifest, d2)

\* C15: whatever the observer task meets (a failed connection, errors on the event
\* stream), the hosting process stays alive, a run() call returns an error only
\* when one of its own filesystem calls failed, and no step of the observer
\* changes what run() reads or writes.
C15_ObserverIsolated ==
    /\ [](/\ process = "alive"
          /\ \A p \in DOMAIN procs : procs[p].result = "err" => procs[p].io_failed)
    /\ [][observer' # observer => (disk' = disk /\ procs' = procs)]_vars

C15_Witness ==
    /\ observer.task = "panicked"
    /\ \E p \in DOMAIN procs : procs[p].result = "ok" /\ procs[p].pc > 0

\* C16: finalizing a SpecBuilder (build, or the conversion Pod::with_spec makes)
\* never panics; with no image set it gives a construction error as a value; and
\* no Spec with an empty or missing image comes out of it.
C16_MissingImageIsAnError ==
    /\ built.kind # "panic"
    /\ (built.kind # "none" /\ builder.image = None) => built.kind = "err"
    /\ built.kind = "spec" => built.spec.image # ""
    /\ built.kind = "pod" => \A name \in DOMAIN built.pod : built.pod[name].image # ""

\* The catalog entries
KnownModules == {"ethereum", "polygon", "berachain"}

\* The args of the pool that are a well-formed typed input of the module
ValidArgs(module) ==
    CASE module = "ethereum" -> {EthArgsLighthouse, EthArgsPrysm}
      [] module = "polygon" -> {PolygonArgs}
      [] module = "berachain" -> {BerachainArgs}
      [] OTHER -> {}

\* The chains each entry lists in capabilities(), by selector
KnownChains(module) ==
    CASE module = "ethereum" -> {"mainnet", "sepolia"}
      [] module = "polygon" -> {"mainnet", "amoy"}
      [] module = "berachain" -> {"mainnet"}
      [] OTHER -> {}

Rejected ==
    /\ request # None
    /\ applied.kind # "none"
    /\ \/ request[1].module \notin KnownModules
       \/ request[1].args \notin ValidArgs(request[1].module)

\* C17: when the request's module is no catalog entry, or its args are no typed
\* input of that entry, catalog::apply returns an error and no Manifest, no
\* backend is constructed or run, and nothing is written to disk.
C17_RejectedRequestTouchesNothing ==
    Rejected =>
        /\ applied = [kind |-> "err"]
        /\ manifest = Manifest("eth", EmptyMap)
        /\ observer.task = "off"
        /\ result = "none"
        /\ compiled = None
        /\ disk = EmptyDisk

C17_Witness ==
    /\ Rejected
    /\ request[1].module \in KnownModules

\* C18: for a well-formed request, a chain selector the module does not know is
\* rejected with an error, and a known one gives the Manifest of that chain: for
\* ethereum, the Manifest that manifest() makes for the selected chain.
C18_ChainSelectorDecides ==
    (/\ request # None
     /\ applied.kind \in {"ok", "err"}
     /\ request[1].module \in KnownModules
     /\ request[1].args \in ValidArgs(request[1].module)) =>
        IF request[1].chain \in KnownChains(request[1].module)
        THEN /\ applied.kind = "ok"
             /\ request[1].module = "ethereum" =>
                    applied.manifest =
                        EthereumDeployment_manifest(
                            IF request[1].chain = "mainnet" THEN "Mainnet" ELSE "Sepolia",
                            de_EthDeploymentInput(request[1].args)[1]).manifest
        ELSE applied.kind = "err"

\* The spec without its remote artifacts, those of its File args included
WithoutRemote(spec) ==
    LET inline(file) == ~starts_with(file.content, "https://")
    IN  [spec EXCEPT
            !.args = SelectSeq(@, LAMBDA a : a.kind = "File" => inline(a.file)),
            !.artifacts = SelectSeq(@, inline)]

WithoutRemoteManifest ==
    [manifest EXCEPT
        !.pods = [pod \in DOMAIN @ |->
                    [sn \in DOMAIN @[pod] |-> WithoutRemote(@[pod][sn])]]]

\* The names of the init services of the remote artifacts of the spec that owns n
RemoteInitNames(n) ==
    {InitServiceName(origin[n].pod, origin[n].spec, file.name) :
        file \in {f \in ArtifactsOf(OwnerSpec(n)) : starts_with(f.content, "https://")}}

\* C21: a remote artifact changes nothing of a run but the init service entry and
\* the depends_on edge: the directories and files the run leaves (staged files,
\* data directory) are those the same run of the Manifest without its remote
\* artifacts leaves, so nothing is fetched or written for it; every {pod}-{spec}
\* service is, apart from depends_on, the service of that Manifest, so no bind
\* mount is added; and depends_on holds the init services of the remote artifacts.
C21_RemoteArtifactOnlyInstructs ==
    result # "none" =>
        \E mseed \in HashSeeds :
            \E failAt \in 0..NumOps(EmptyDisk, manifest, mseed) :
                LET st == Compile(EmptyDisk, WithoutRemoteManifest, mseed, failAt)
                IN  /\ (failAt = 0) = (result = "ok")
                    /\ disk.dirs = st.disk.dirs
                    /\ StagedFiles(disk) = StagedFiles(st.disk)
                    /\ compiled # None =>
                        \A n \in OwnedServices :
                            /\ n \in DOMAIN st.services
                            /\ [Services[n] EXCEPT !.depends_on = EmptyMap]
                                    = st.services[n]
                            /\ DOMAIN Services[n].depends_on = RemoteInitNames(n)

C21_Witness ==
    /\ result = "ok"
    /\ \E n \in OwnedServices :
        /\ RemoteInitNames(n) # {}
        /\ \E file \in ArtifactsOf(OwnerSpec(n)) : ~starts_with(file.content, "https://")

\* C22: the image of every service lowered from a spec is "{image}:{tag}" when the
\* spec has a tag and "{image}:latest" when it has none, in the returned descriptor
\* and in the descriptor file.
C22_ImageAndTag ==
    compiled # None =>
        \A n \in OwnedServices :
            LET spec == OwnerSpec(n)
                image == IF spec.tag # None
                         THEN spec.image \o ":" \o spec.tag[1]
                         ELSE spec.image \o ":latest"
            IN  /\ Services[n].image = image
                /\ result = "ok" =>
                    YGet(YGet(YGet(disk.files[DescriptorFile], "services"), n), "image")
                        = image

C22_Witness ==
    /\ result = "ok"
    /\ \E n \in OwnedServices : OwnerSpec(n).tag = None
    /\ \E n \in OwnedServices : OwnerSpec(n).tag # None

\* The preferred values of the Port Args of a spec
PreferredPorts(spec) ==
    {arg.preferred : arg \in {a \in Range(spec.args) : a.kind = "Port"}}

\* The pairs whose spec declares a Port Arg with a preferred value that the spec
\* of another pair declares too
PortConflictPairs ==
    {p \in Pairs : \E q \in Pairs \ {p} :
        PreferredPorts(SpecAt(p)) \cap PreferredPorts(SpecAt(q)) # {}}

\* The service of pair p is in services, lowered from p, and maps every preferred
\* port of its spec to itself
CarriesMappings(services, origins, p) ==
    LET n == ServiceName(p[1], p[2])
    IN  /\ n \in DOMAIN services
        /\ origins[n] = [pod |-> p[1], spec |-> p[2], kind |-> "spec"]
        /\ \A port \in PreferredPorts(SpecAt(p)) :
            [host |-> port, container |-> port] \in Range(services[n].ports)

\* C23: for a Manifest in which two specs declare a Port Arg with the same
\* preferred value the compile follows one policy whatever the iteration order of
\* the maps: it fails in every order, or it succeeds in every order and each of
\* the services of those specs carries the mapping preferred:preferred.
C23_PortConflictPolicy ==
    PortConflictPairs # {} =>
        \/ /\ compiled = None
           /\ \A mseed \in HashSeeds : Compile(EmptyDisk, manifest, mseed, 0).err
        \/ /\ compiled # None =>
                \A p \in PortConflictPairs : CarriesMappings(Services, origin, p)
           /\ \A mseed \in HashSeeds :
                LET st == Compile(EmptyDisk, manifest, mseed, 0)
                IN  /\ ~st.err
                    /\ \A p \in PortConflictPairs :
                        CarriesMappings(st.services, st.origin, p)

\* The remote artifacts of a spec, one for each File Arg and each artifact entry
RemoteArtifacts(spec) ==
    SelectSeq([i \in 1..Len(SelectSeq(spec.args, IsFileArg)) |->
                    SelectSeq(spec.args, IsFileArg)[i].file] \o spec.artifacts,
              LAMBDA file : starts_with(file.content, "https://"))

\* The number of remote artifacts of the specs at the pairs of P
RECURSIVE RemoteCount(_)
RemoteCount(P) ==
    IF P = {} THEN 0
    ELSE LET p == CHOOSE q \in P : TRUE
         IN  Len(RemoteArtifacts(SpecAt(p))) + RemoteCount(P \ {p})

\* C28: no service entry is lost to a name collision: the descriptor holds as many
\* services as the Manifest has (pod, spec) pairs and remote artifacts together.
C28_NoServiceLost ==
    compiled # None =>
        Cardinality(DOMAIN Services) = Cardinality(Pairs) + RemoteCount(Pairs)

\* The generated names of the Manifest are pairwise distinct
NamesDistinct == Cardinality(Pairs) + RemoteCount(Pairs)
    = Cardinality({ServiceName(p[1], p[2]) : p \in Pairs}
        \cup UNION {{InitServiceName(p[1], p[2], f.name) :
                        f \in Range(RemoteArtifacts(SpecAt(p)))} : p \in Pairs})

\* C25: the command of a service lowered from a spec has exactly one token for
\* each Literal, Directory and Port Arg of the spec, in declaration order, and
\* none for a Ref or a File Arg.
C25_RefAddsNoToken ==
    compiled # None =>
        \A n \in OwnedServices :
            LET args == SelectSeq(OwnerSpec(n).args, IsTokenArg)
            IN  Services[n].command = [i \in 1..Len(args) |-> SpecifiedToken(args[i])]

\* The services reached from those of S along depends_on edges, S included
RECURSIVE DependsOnClosure(_)
DependsOnClosure(S) ==
    LET more == UNION {DOMAIN Services[n].depends_on \cap DOMAIN Services : n \in S}
    IN  IF more \subseteq S THEN S ELSE DependsOnClosure(S \cup more)

\* C27: in the returned descriptor, and in the descriptor file, every key of a
\* service's depends_on is the name of a service of the descriptor, and no service
\* is reached from its own dependencies along depends_on edges.
C27_DependenciesPresentAndAcyclic ==
    compiled # None =>
        \A n \in DOMAIN Services :
            /\ DOMAIN Services[n].depends_on \subseteq DOMAIN Services
            /\ n \notin DependsOnClosure(DOMAIN Services[n].depends_on)
            /\ result = "ok" =>
                LET services == YGet(disk.files[DescriptorFile], "services")
                    y == YGet(services, n)
                IN  YHas(y, "depends_on") =>
                        \A k \in 1..Len(YGet(y, "depends_on").e) :
                            YHas(services, YGet(y, "depends_on").e[k][1])

C27_Witness ==
    /\ result = "ok"
    /\ \E n \in DOMAIN Services : \E d \in DOMAIN Services[n].depends_on :
        Services[d].depends_on # EmptyMap

\* The calls of procs that returned Ok, by position
OkCalls == {i \in DOMAIN procs : procs[i].result = "ok"}

\* The Manifest of the latest call that returned Ok: the one whose descriptor is
\* on disk
DescribedManifest == procs[CHOOSE i \in OkCalls : \A j \in OkCalls : j <= i].manifest

\* The volume entries of the descriptor file that bind a file of the config
\* directory
ConfigBinds ==
    LET services == YGet(disk.files[DescriptorFile], "services")
        config == canonicalize(join(join(dir_path, manifest.name), "_config")) \o "/"
    IN  UNION {{<<services.e[k][1], v>> :
                    v \in {w \in Range(YGet(services.e[k][2], "volumes").e) :
                                starts_with(w, config)}} :
               k \in 1..Len(services.e)}

\* C29: after any sequence of run() calls on one root, successful or failed,
\* whenever the descriptor file exists, every config file bound by one of its
\* services exists and holds the content of the inline artifact of that name and
\* target of the Manifest the descriptor was compiled from.
C29_DescriptorMatchesStagedFiles ==
    DescriptorFile \in DOMAIN disk.files =>
        /\ OkCalls # {}
        /\ \A b \in ConfigBinds :
            \E p \in {q \in Positions :
                        /\ q[1] \in DOMAIN DescribedManifest.pods
                        /\ q[2] \in DOMAIN DescribedManifest.pods[q[1]]} :
            \E file \in ArtifactsOf(DescribedManifest.pods[p[1]][p[2]]) :
                LET host == join(canonicalize(join(join(dir_path, DescribedManifest.name),
                                                   "_config")), file.name)
                IN  /\ b[1] = ServiceName(p[1], p[2])
                    /\ b[2] = host \o ":" \o file.target_path
                    /\ host \in DOMAIN disk.files
                    /\ disk.files[host] = file.content

\* C24: when the fetch of an http or https URL whose path is not that of a
\* .tar.gz or .tgz archive has returned Ok, the destination file exists and holds
\* the bytes of the response body; and a fetch returns Ok only after a response
\* with a success status.
C24_FetchedFileHoldsBody ==
    (fetcher.pc = "returned" /\ fetcher.result = "ok") =>
        LET url == Url_parse(fetcher.source)
            file == canonicalize(fetcher.destination)
        IN  /\ url # None
            /\ url[1].scheme \in {"http", "https"}
            /\ fetcher.response # None
            /\ fetcher.response[1].status \in 200..299
            /\ ~(ends_with(url[1].path, ".tar.gz") \/ ends_with(url[1].path, ".tgz")) =>
                /\ file \in DOMAIN disk.files
                /\ disk.files[file] = Concat(fetcher.response[1].body)

C24_Witness ==
    /\ fetcher.pc = "returned"
    /\ fetcher.result = "ok"
    /\ fetcher.progress.kind = "noop"
    /\ fetcher.format = "None"
    /\ Len(fetcher.response[1].body) = MaxChunks
    /\ disk.files[canonicalize(fetcher.destination)] # ""

\* The calls made on the tracker so far
TrackerCalls == fetcher.progress.calls

\* The positions of the calls of one method
CallsOf(method) == {i \in DOMAIN TrackerCalls : TrackerCalls[i].call = method}

\* The values passed to update, in call order
Updates == SelectSeq(TrackerCalls, LAMBDA c : c.call = "update")

\* The number of bytes of the first k reads of the response body; the reads past
\* its end deliver nothing
BytesRead(k) ==
    LET body == fetcher.response[1].body
    IN  Len(Concat(SubSeq(body, 1, IF k < Len(body) THEN k ELSE Len(body))))

\* C26: at every point of a fetch_with_progress call, set_total was called at most
\* once and before every update; the k-th update carried the bytes read by the
\* first k reads, so the values never decrease; and finish was called exactly
\* once, as the last call, if the fetch returned Ok, and not at all otherwise.
C26_TrackerProtocolOrder ==
    fetcher.pc # "idle" =>
        /\ Cardinality(CallsOf("set_total")) <= 1
        /\ \A i \in CallsOf("set_total") : \A j \in CallsOf("update") : i < j
        /\ \A k \in 1..Len(Updates) : Updates[k].n = BytesRead(k)
        /\ \A j \in 1..Len(Updates) : \A k \in j..Len(Updates) : Updates[j].n <= Updates[k].n
        /\ IF fetcher.result = "ok"
           THEN CallsOf("finish") = {Len(TrackerCalls)}
           ELSE CallsOf("finish") = {}

C26_Witness ==
    /\ fetcher.result = "ok"
    /\ CallsOf("set_total") = {1}
    /\ Len(Updates) = MaxChunks + 1
    /\ Updates[1].n < Updates[2].n

====
